---- MODULE Spec2Model ----
(***************************************************************************)
(* WordMath: embedding acquisition (cache, generator, fallback), the two   *)
(* API routes that drive it, and the similarity ranker.                    *)
(*                                                                         *)
(* Strings are sequences of one-character strings, so that toLowerCase,    *)
(* trim, length and charCodeAt are computed and not assumed.  Vectors are  *)
(* sequences of integers.                                                  *)
(*                                                                         *)
(* The repository holds two builds of EmbeddingService: the one of         *)
(* wordmath-app/src/lib/embedding-service.ts rethrows a generator failure, *)
(* the one of unnamed/part_003 falls back to generateMockEmbedding.  The   *)
(* variable mockFallback says which build runs.                            *)
(***************************************************************************)
EXTENDS Integers, Sequences, FiniteSets, TLC

\* ------------------------------------------------------------------ bounds
MaxRequests == 1      \* requests started in one behaviour
MaxTicks == 2         \* clock advances in one behaviour
MaxWords == 2         \* words in one /api/embeddings request
MaxCandidates == 2    \* candidates in one call of findMostSimilar
MaxDim == 2           \* components of a vector handed to a vector operation
MaxAdmitted == 2      \* largest maxRequests handed to RateLimiter.isAllowed
MaxBudgetCalls == 3   \* calls of CostProtection.processRequest in one behaviour
MaxTextLen == 2       \* characters of a text handed to detectLanguage

\* --------------------------------------------------------------- constants
cacheTimeout == 24 * 60 * 60 * 1000
dimension == 384
ZeroVectorLength == 384
MaxWordLength == 100
MinWordLength == 1
DefaultWindow == 60000
dailyBudget == 100    \* $1 per day, in cents

\* ------------------------------------------------------------------- state
\*   mockFallback  TRUE: the build of unnamed/part_003 (synthetic fallback)
\*   apiKey        HUGGINGFACE_API_KEY is set to a real token
\*   cache         EmbeddingService.cache: key -> {embedding, timestamp}
\*   now           Date.now()
\*   ticks         clock advances so far
\*   requests      requests started so far
\*   tasks         the request handlers in flight or finished
VARIABLES mockFallback, apiKey, cache, now, ticks, requests, tasks

\* a call of one of the pure functions: its arguments and what it returned
VARIABLES args, returned

\* the RateLimiter of technical-specs.md: requests, ip -> admitted timestamps
VARIABLES limiter

\* the CostProtection of unnamed/part_001: what has been spent today, in
\* cents, and the calls of processRequest
VARIABLES currentSpend, budgetCalls

serviceVars == <<mockFallback, apiKey, cache, now, ticks, requests, tasks>>

callVars == <<args, returned>>

budgetVars == <<currentSpend, budgetCalls>>

guardVars == <<limiter, budgetVars>>

vars == <<serviceVars, callVars, guardVars>>

\* ----------------------------------------------------------------- strings
UpperLetters ==
  <<"A","B","C","D","E","F","G","H","I","J","K","L","M",
    "N","O","P","Q","R","S","T","U","V","W","X","Y","Z">>

LowerLetters ==
  <<"a","b","c","d","e","f","g","h","i","j","k","l","m",
    "n","o","p","q","r","s","t","u","v","w","x","y","z">>

WhiteSpace == {" ", "\t", "\n"}

IndexIn(seq, c) == CHOOSE i \in 1..Len(seq) : seq[i] = c

\* the characters outside ASCII that the model uses, each written as one
\* element "U+hhhh": its code unit and its lower-case form
OtherChars ==
  <<[char |-> "U+00E7", code |-> 231, lower |-> "U+00E7"],
    [char |-> "U+00C7", code |-> 199, lower |-> "U+00E7"],
    [char |-> "U+00E9", code |-> 233, lower |-> "U+00E9"],
    [char |-> "U+0645", code |-> 1605, lower |-> "U+0645"],
    [char |-> "U+4E2D", code |-> 20013, lower |-> "U+4E2D"],
    [char |-> "U+0434", code |-> 1076, lower |-> "U+0434"],
    [char |-> "U+0414", code |-> 1044, lower |-> "U+0434"]>>

IsOtherChar(c) == \E i \in 1..Len(OtherChars) : OtherChars[i].char = c

OtherChar(c) == OtherChars[CHOOSE i \in 1..Len(OtherChars) : OtherChars[i].char = c]

\* String.prototype.charCodeAt for the characters the model uses
charCodeAt(c) ==
  IF \E i \in 1..26 : UpperLetters[i] = c THEN 64 + IndexIn(UpperLetters, c)
  ELSE IF \E i \in 1..26 : LowerLetters[i] = c THEN 96 + IndexIn(LowerLetters, c)
  ELSE IF c = " " THEN 32
  ELSE IF c = "\t" THEN 9
  ELSE IF c = "\n" THEN 10
  ELSE IF c = "+" THEN 43
  ELSE IF c = "-" THEN 45
  ELSE IF IsOtherChar(c) THEN OtherChar(c).code
  ELSE 63

toLowerChar(c) ==
  IF \E i \in 1..26 : UpperLetters[i] = c
  THEN LowerLetters[IndexIn(UpperLetters, c)]
  ELSE IF IsOtherChar(c) THEN OtherChar(c).lower
  ELSE c

\* String.prototype.toLowerCase
toLowerCase(s) == [i \in 1..Len(s) |-> toLowerChar(s[i])]

RECURSIVE trimStart(_)
trimStart(s) ==
  IF s # <<>> /\ Head(s) \in WhiteSpace THEN trimStart(Tail(s)) ELSE s

RECURSIVE trimEnd(_)
trimEnd(s) ==
  IF s # <<>> /\ s[Len(s)] \in WhiteSpace
  THEN trimEnd(SubSeq(s, 1, Len(s) - 1))
  ELSE s

\* String.prototype.trim
trim(s) == trimEnd(trimStart(s))

\* ------------------------------------------------------------------- words
W_king == <<"k","i","n","g">>
W_KingSp == <<"K","i","n","g"," ">>
W_King == <<"K","i","n","g">>
W_blank == <<" ">>
W_empty == <<>>
W_long == [i \in 1..(MaxWordLength + 1) |-> "a"]

\* what a client may put in a request body
RawWords == {W_KingSp, W_blank, W_empty, W_long}

\* the texts a caller of the service itself passes to getBatchEmbeddings
DirectTexts == {W_KingSp, W_king, W_King}

\* every text that can reach getEmbedding
AllTexts == RawWords \cup DirectTexts
                     \cup {toLowerCase(trim(w)) : w \in RawWords}
                     \cup {trim(w) : w \in RawWords}

Operations == {"+", "-"}

\* ----------------------------------------------------------------- vectors
Zeros(n) == [i \in 1..n |-> 0]

RECURSIVE SumSeq(_)
SumSeq(s) == IF s = <<>> THEN 0 ELSE Head(s) + SumSeq(Tail(s))

\* a function either returns a value or throws an Error
Ok(value) == [ok |-> TRUE, value |-> value, error |-> "none", left |-> 0, right |-> 0]

\* throw new Error(`Vector dimensions must match: ${v1.length} !== ${v2.length}`)
DimensionError(v1, v2) ==
  [ok |-> FALSE, value |-> <<>>, error |-> "Vector dimensions must match",
   left |-> Len(v1), right |-> Len(v2)]

IsError(x) == ~x.ok

addVectors(v1, v2) ==
  IF Len(v1) # Len(v2) THEN DimensionError(v1, v2)
  ELSE Ok([idx \in 1..Len(v1) |-> v1[idx] + v2[idx]])

subtractVectors(v1, v2) ==
  IF Len(v1) # Len(v2) THEN DimensionError(v1, v2)
  ELSE Ok([idx \in 1..Len(v1) |-> v1[idx] - v2[idx]])

performWordArithmetic(embedding1, embedding2, operation) ==
  CASE operation = "+" -> addVectors(embedding1, embedding2)
    [] operation = "-" -> subtractVectors(embedding1, embedding2)
    [] OTHER -> [ok |-> FALSE, value |-> <<>>, error |-> "Unsupported operation",
                 left |-> 0, right |-> 0]

\* v1.reduce((sum, val, idx) => sum + val * v2[idx], 0)
DotProduct(v1, v2) == SumSeq([idx \in 1..Len(v1) |-> v1[idx] * v2[idx]])

\* A similarity is the real number num / sqrt(densq), kept exactly:
\* dotProduct / (magnitude1 * magnitude2), or 0 when a magnitude is 0.
cosineSimilarity(v1, v2) ==
  IF Len(v1) # Len(v2) THEN DimensionError(v1, v2)
  ELSE LET dotProduct == DotProduct(v1, v2)
           squared1 == DotProduct(v1, v1)
           squared2 == DotProduct(v2, v2)
       IN  IF squared1 = 0 \/ squared2 = 0
           THEN Ok([num |-> 0, densq |-> 1])
           ELSE Ok([num |-> dotProduct, densq |-> squared1 * squared2])

Abs(x) == IF x < 0 THEN -x ELSE x

\* A Euclidean distance is the real number sqrt(squared), kept exactly.
euclideanDistance(v1, v2) ==
  IF Len(v1) # Len(v2) THEN DimensionError(v1, v2)
  ELSE Ok([squared |->
             SumSeq([idx \in 1..Len(v1) |-> (v1[idx] - v2[idx]) * (v1[idx] - v2[idx])])])

\* a distance that does not look at the lengths and reads a missing
\* component as 0
manhattanDistance_Unchecked(v1, v2) ==
  Ok(SumSeq([idx \in 1..Len(v1) |->
               Abs(v1[idx] - (IF idx <= Len(v2) THEN v2[idx] ELSE 0))]))

manhattanDistance(v1, v2) ==
  IF Len(v1) # Len(v2) THEN DimensionError(v1, v2)
  ELSE Ok(SumSeq([idx \in 1..Len(v1) |-> Abs(v1[idx] - v2[idx])]))

\* a > b for two similarities
SimGreater(a, b) ==
  IF a.num >= 0 /\ b.num < 0 THEN TRUE
  ELSE IF a.num < 0 /\ b.num >= 0 THEN FALSE
  ELSE IF a.num >= 0
  THEN a.num * a.num * b.densq > b.num * b.num * a.densq
  ELSE a.num * a.num * b.densq < b.num * b.num * a.densq

\* ------------------------------------------------------------------ ranker
\* Array.prototype.includes
Includes(list, x) == \E i \in 1..Len(list) : list[i] = x

\* candidate => !excludeWords.includes(candidate.word.toLowerCase())
KeepsCandidate(candidate, excludeWords) ==
  ~Includes(excludeWords, toLowerCase(candidate.word))

\* candidateVectors.filter(...)
RECURSIVE FilterCandidates(_, _)
FilterCandidates(list, excludeWords) ==
  IF list = <<>> THEN <<>>
  ELSE IF KeepsCandidate(Head(list), excludeWords)
  THEN <<Head(list)>> \o FilterCandidates(Tail(list), excludeWords)
  ELSE FilterCandidates(Tail(list), excludeWords)

\* a sort that puts an element before the elements equal to it
RECURSIVE InsertDescending_TiesFirst(_, _)
InsertDescending_TiesFirst(sorted, x) ==
  IF sorted = <<>> THEN <<x>>
  ELSE IF ~SimGreater(Head(sorted).similarity, x.similarity)
  THEN <<x>> \o sorted
  ELSE <<Head(sorted)>> \o InsertDescending_TiesFirst(Tail(sorted), x)

\* Array.prototype.sort with (a, b) => b.similarity - a.similarity: a stable
\* sort, so an element goes behind every element that is not smaller
RECURSIVE InsertDescending(_, _)
InsertDescending(sorted, x) ==
  IF sorted = <<>> THEN <<x>>
  ELSE IF SimGreater(x.similarity, Head(sorted).similarity)
  THEN <<x>> \o sorted
  ELSE <<Head(sorted)>> \o InsertDescending(Tail(sorted), x)

RECURSIVE SortDescending(_)
SortDescending(list) ==
  IF list = <<>> THEN <<>>
  ELSE InsertDescending(SortDescending(SubSeq(list, 1, Len(list) - 1)),
                        list[Len(list)])

\* Array.prototype.slice(0, k)
Slice(list, k) == SubSeq(list, 1, IF k < Len(list) THEN k ELSE Len(list))

\* a ranker that leaves out the candidates it cannot score
RECURSIVE SameLengthOnly(_, _)
SameLengthOnly(list, targetVector) ==
  IF list = <<>> THEN <<>>
  ELSE IF Len(Head(list).vector) = Len(targetVector)
  THEN <<Head(list)>> \o SameLengthOnly(Tail(list), targetVector)
  ELSE SameLengthOnly(Tail(list), targetVector)

findMostSimilar_DropsMismatched(targetVector, candidateVectors, topK, excludeWords) ==
  LET kept == SameLengthOnly(FilterCandidates(candidateVectors, excludeWords),
                             targetVector)
      mapped == [i \in 1..Len(kept) |->
                   [word |-> kept[i].word,
                    similarity |-> cosineSimilarity(targetVector, kept[i].vector).value,
                    language |-> kept[i].language]]
  IN  Ok(Slice(SortDescending(mapped), topK))

findMostSimilar(targetVector, candidateVectors, topK, excludeWords) ==
  LET kept == FilterCandidates(candidateVectors, excludeWords)
      scores == [i \in 1..Len(kept) |-> cosineSimilarity(targetVector, kept[i].vector)]
      mapped == [i \in 1..Len(kept) |->
                   [word |-> kept[i].word, similarity |-> scores[i].value,
                    language |-> kept[i].language]]
  IN  IF \E i \in 1..Len(kept) : IsError(scores[i])
      THEN scores[CHOOSE i \in 1..Len(kept) :
                    /\ IsError(scores[i])
                    /\ \A j \in 1..(i - 1) : ~IsError(scores[j])]
      ELSE Ok(Slice(SortDescending(mapped), topK))

\* ---------------------------------------------------- synthetic embedding
\* seed = sum of the UTF-16 code units of the text
RECURSIVE seedOf(_)
seedOf(text) ==
  IF text = <<>> THEN 0 ELSE charCodeAt(Head(text)) + seedOf(Tail(text))

\* seed = (seed * 9301 + 49297) % 233280, computed without leaving 32 bits
\* (JavaScript computes it exactly in a double)
lcgNext(seed) ==
  (((seed * 9000) % 233280) + ((seed * 301) % 233280) + 49297) % 233280

\* the first n values of the generator's state, eight to a step so that the
\* evaluation stays shallow
RECURSIVE lcgStates(_, _)
lcgStates(seed, n) ==
  IF n = 0 THEN <<>>
  ELSE IF n >= 8
  THEN LET s1 == lcgNext(seed)
           s2 == lcgNext(s1)
           s3 == lcgNext(s2)
           s4 == lcgNext(s3)
           s5 == lcgNext(s4)
           s6 == lcgNext(s5)
           s7 == lcgNext(s6)
           s8 == lcgNext(s7)
       IN  <<s1, s2, s3, s4, s5, s6, s7, s8>> \o lcgStates(s8, n - 8)
  ELSE <<lcgNext(seed)>> \o lcgStates(lcgNext(seed), n - 1)

\* mutant: the generator is seeded with the clock as well
generateMockEmbedding_ClockSeeded(text) ==
  LET states == lcgStates(seedOf(text) + ticks, dimension)
  IN  [i \in 1..dimension |-> 2 * states[i] - 233280]

\* embedding[i] = (random() - 0.5) * 2 = (2 * seed_i - 233280) / 233280.
\* The vector is kept as these numerators: the closing loop divides every
\* component by one and the same magnitude, which MockMagnitudeNonZero
\* shows to be positive.
generateMockEmbedding(text) ==
  LET states == lcgStates(seedOf(text), dimension)
  IN  [i \in 1..dimension |-> 2 * states[i] - 233280]

\* generateMockEmbedding of every text of the model, computed once
SyntheticVectors == [text \in AllTexts |-> generateMockEmbedding(text)]

\* new Array(384).fill(0)
ZeroVector == Zeros(ZeroVectorLength)

MockMagnitudeNonZero(v) == \E i \in 1..Len(v) : v[i] # 0

\* ---------------------------------------------------- external generator
\* what hf.featureExtraction can answer to one call
\*   error:  the call rejects (transport or provider error)
\*   other:  an answer that is not an array
\*   flat:   number[], the embedding itself
\*   nested: number[][], one row per token; the code takes row 0
\* numbers holds a flat answer, row0 the first row of a nested one
\* a vector of the model's own size (paraphrase-multilingual-MiniLM-L12-v2)
ModelVector == [i \in 1..dimension |-> 1]

Responses ==
  {[kind |-> "error", numbers |-> <<>>, row0 |-> <<>>],
   [kind |-> "other", numbers |-> <<>>, row0 |-> <<>>],
   [kind |-> "flat", numbers |-> <<>>, row0 |-> <<>>],
   [kind |-> "flat", numbers |-> <<1, 2>>, row0 |-> <<>>],
   [kind |-> "flat", numbers |-> ModelVector, row0 |-> <<>>],
   [kind |-> "nested", numbers |-> <<>>, row0 |-> <<1, 2>>]}

\* Array.isArray(response) && Array.isArray(response[0])
IsNestedArray(response) == response.kind = "nested"

IsArray(response) == response.kind \in {"flat", "nested"}

ResponseFails(response) ==
  response.kind = "error" \/ ~IsArray(response)

ExtractEmbedding(response) ==
  IF IsNestedArray(response) THEN response.row0 ELSE response.numbers

\* ------------------------------------------------------- language detection
\* /[çğıöşüÇĞIİÖŞÜ]/ as code units; the class holds the ASCII letter I (73)
turkishChars == {231, 287, 305, 246, 351, 252, 199, 286, 73, 304, 214, 350, 220}

\* /[\u0600-\u06FF]/
arabicChars == 1536..1791

\* /[\u4e00-\u9fff]/
chineseChars == 19968..40959

\* /[а-яё]/i: а-я and ё, and through the i flag А-Я and Ё
russianChars == (1072..1103) \cup {1105} \cup (1040..1071) \cup {1025}

\* RegExp.prototype.test for a one-character class
TestChars(class, text) == \E i \in 1..Len(text) : charCodeAt(text[i]) \in class

detectLanguage(text) ==
  IF TestChars(turkishChars, text) THEN "tr"
  ELSE IF TestChars(arabicChars, text) THEN "ar"
  ELSE IF TestChars(chineseChars, text) THEN "zh"
  ELSE IF TestChars(russianChars, text) THEN "ru"
  ELSE "en"

\* ------------------------------------------------------------------- cache
\* mutant: the key is trimmed but keeps its case
cacheKeyOf_KeepsCase(text) == trim(text)

\* const cacheKey = text.toLowerCase().trim()
cacheKeyOf(text) == trim(toLowerCase(text))

CacheHas(c, key) == key \in DOMAIN c

\* mutant: an entry never expires
CacheFresh_NeverExpires(c, key, t) == CacheHas(c, key)

\* mutant: the lookup never hits
CacheFresh_AlwaysMiss(c, key, t) == FALSE

\* cached && Date.now() - cached.timestamp < this.cacheTimeout
CacheFresh(c, key, t) ==
  CacheHas(c, key) /\ t - c[key].timestamp < cacheTimeout

CacheSet(c, key, entry) ==
  [k \in DOMAIN c \cup {key} |-> IF k = key THEN entry ELSE c[k]]

EmptyCache == [k \in {} |-> [embedding |-> <<>>, timestamp |-> 0]]

getCacheStats(c) == [size |-> Cardinality(DOMAIN c), hitRate |-> 0]

\* ------------------------------------------------------- demo results
\* similarity is kept in hundredths (0.87 is 87)
demoResults ==
  <<[key |-> <<"k","i","n","g","-","m","a","n">>,
     results |->
      <<[word |-> <<"q","u","e","e","n">>, similarity |-> 87, language |-> "en"],
      [word |-> <<"p","r","i","n","c","e","s","s">>, similarity |-> 72, language |-> "en"],
      [word |-> <<"l","a","d","y">>, similarity |-> 68, language |-> "en"]>>],
    [key |-> <<"p","a","r","i","s","-","f","r","a","n","c","e">>,
     results |->
      <<[word |-> <<"l","o","n","d","o","n">>, similarity |-> 83, language |-> "en"],
      [word |-> <<"b","e","r","l","i","n">>, similarity |-> 79, language |-> "en"],
      [word |-> <<"m","a","d","r","i","d">>, similarity |-> 76, language |-> "en"]>>],
    [key |-> <<"h","a","p","p","y","+","j","o","y">>,
     results |->
      <<[word |-> <<"b","l","i","s","s","f","u","l">>, similarity |-> 89, language |-> "en"],
      [word |-> <<"e","u","p","h","o","r","i","c">>, similarity |-> 84, language |-> "en"],
      [word |-> <<"d","e","l","i","g","h","t","e","d">>, similarity |-> 81, language |-> "en"]>>],
    [key |-> <<"a","p","p","l","e","+","r","e","d">>,
     results |->
      <<[word |-> <<"c","h","e","r","r","y">>, similarity |-> 85, language |-> "en"],
      [word |-> <<"s","t","r","a","w","b","e","r","r","y">>, similarity |-> 78, language |-> "en"],
      [word |-> <<"t","o","m","a","t","o">>, similarity |-> 72, language |-> "en"]>>]>>

\* a default list of two weak results
genericResults_TwoWeak ==
  <<[word |-> <<"r","e","s","u","l","t","1">>, similarity |-> 45, language |-> "en"],
     [word |-> <<"r","e","s","u","l","t","2">>, similarity |-> 40, language |-> "en"]>>

genericResults ==
  <<[word |-> <<"r","e","s","u","l","t","1">>, similarity |-> 75, language |-> "en"],
     [word |-> <<"r","e","s","u","l","t","2">>, similarity |-> 68, language |-> "en"],
     [word |-> <<"r","e","s","u","l","t","3">>, similarity |-> 62, language |-> "en"]>>

\* vector-operations.ts: the table behind /api/similarity
generateDemoSimilarWords(word1, word2, operation) ==
  LET key == toLowerCase(word1) \o <<operation>> \o toLowerCase(word2)
  IN  IF \E i \in 1..Len(demoResults) : demoResults[i].key = key
      THEN demoResults[CHOOSE i \in 1..Len(demoResults) : demoResults[i].key = key].results
      ELSE genericResults

\* embedding-service.ts holds a second generateDemoSimilarWords, with a longer
\* table and a fallback by word category; similarity again in hundredths
extendedDemoResults ==
  <<[key |-> <<"k","i","n","g","-","m","a","n">>,
     results |->
      <<[word |-> <<"q","u","e","e","n">>, similarity |-> 87, language |-> "en"],
       [word |-> <<"p","r","i","n","c","e","s","s">>, similarity |-> 72, language |-> "en"],
       [word |-> <<"l","a","d","y">>, similarity |-> 68, language |-> "en"]>>],
    [key |-> <<"m","a","n","-","k","i","n","g">>,
     results |->
      <<[word |-> <<"c","o","m","m","o","n","e","r">>, similarity |-> 79, language |-> "en"],
       [word |-> <<"p","e","a","s","a","n","t">>, similarity |-> 71, language |-> "en"],
       [word |-> <<"c","i","t","i","z","e","n">>, similarity |-> 65, language |-> "en"]>>],
    [key |-> <<"p","a","r","i","s","-","f","r","a","n","c","e">>,
     results |->
      <<[word |-> <<"l","o","n","d","o","n">>, similarity |-> 83, language |-> "en"],
       [word |-> <<"b","e","r","l","i","n">>, similarity |-> 79, language |-> "en"],
       [word |-> <<"m","a","d","r","i","d">>, similarity |-> 76, language |-> "en"]>>],
    [key |-> <<"f","r","a","n","c","e","-","p","a","r","i","s">>,
     results |->
      <<[word |-> <<"c","o","u","n","t","r","y">>, similarity |-> 81, language |-> "en"],
       [word |-> <<"n","a","t","i","o","n">>, similarity |-> 77, language |-> "en"],
       [word |-> <<"r","e","p","u","b","l","i","c">>, similarity |-> 73, language |-> "en"]>>],
    [key |-> <<"h","a","p","p","y","+","j","o","y">>,
     results |->
      <<[word |-> <<"b","l","i","s","s","f","u","l">>, similarity |-> 89, language |-> "en"],
       [word |-> <<"e","u","p","h","o","r","i","c">>, similarity |-> 84, language |-> "en"],
       [word |-> <<"d","e","l","i","g","h","t","e","d">>, similarity |-> 81, language |-> "en"]>>],
    [key |-> <<"j","o","y","+","h","a","p","p","y">>,
     results |->
      <<[word |-> <<"b","l","i","s","s","f","u","l">>, similarity |-> 89, language |-> "en"],
       [word |-> <<"e","u","p","h","o","r","i","c">>, similarity |-> 84, language |-> "en"],
       [word |-> <<"d","e","l","i","g","h","t","e","d">>, similarity |-> 81, language |-> "en"]>>],
    [key |-> <<"h","a","p","p","y","-","s","a","d">>,
     results |->
      <<[word |-> <<"j","o","y","f","u","l">>, similarity |-> 85, language |-> "en"],
       [word |-> <<"c","h","e","e","r","f","u","l">>, similarity |-> 78, language |-> "en"],
       [word |-> <<"o","p","t","i","m","i","s","t","i","c">>, similarity |-> 74, language |-> "en"]>>],
    [key |-> <<"s","a","d","-","h","a","p","p","y">>,
     results |->
      <<[word |-> <<"d","e","p","r","e","s","s","e","d">>, similarity |-> 82, language |-> "en"],
       [word |-> <<"g","l","o","o","m","y">>, similarity |-> 76, language |-> "en"],
       [word |-> <<"m","e","l","a","n","c","h","o","l","y">>, similarity |-> 71, language |-> "en"]>>],
    [key |-> <<"a","p","p","l","e","+","r","e","d">>,
     results |->
      <<[word |-> <<"c","h","e","r","r","y">>, similarity |-> 85, language |-> "en"],
       [word |-> <<"s","t","r","a","w","b","e","r","r","y">>, similarity |-> 78, language |-> "en"],
       [word |-> <<"t","o","m","a","t","o">>, similarity |-> 72, language |-> "en"]>>],
    [key |-> <<"r","e","d","+","a","p","p","l","e">>,
     results |->
      <<[word |-> <<"c","h","e","r","r","y">>, similarity |-> 85, language |-> "en"],
       [word |-> <<"s","t","r","a","w","b","e","r","r","y">>, similarity |-> 78, language |-> "en"],
       [word |-> <<"t","o","m","a","t","o">>, similarity |-> 72, language |-> "en"]>>],
    [key |-> <<"a","p","p","l","e","-","r","e","d">>,
     results |->
      <<[word |-> <<"f","r","u","i","t">>, similarity |-> 84, language |-> "en"],
       [word |-> <<"o","r","a","n","g","e">>, similarity |-> 77, language |-> "en"],
       [word |-> <<"b","a","n","a","n","a">>, similarity |-> 73, language |-> "en"]>>],
    [key |-> <<"c","a","t","+","f","a","s","t">>,
     results |->
      <<[word |-> <<"c","h","e","e","t","a","h">>, similarity |-> 82, language |-> "en"],
       [word |-> <<"l","e","o","p","a","r","d">>, similarity |-> 76, language |-> "en"],
       [word |-> <<"p","a","n","t","h","e","r">>, similarity |-> 71, language |-> "en"]>>],
    [key |-> <<"f","a","s","t","+","c","a","t">>,
     results |->
      <<[word |-> <<"c","h","e","e","t","a","h">>, similarity |-> 82, language |-> "en"],
       [word |-> <<"l","e","o","p","a","r","d">>, similarity |-> 76, language |-> "en"],
       [word |-> <<"p","a","n","t","h","e","r">>, similarity |-> 71, language |-> "en"]>>],
    [key |-> <<"d","o","g","+","b","i","g">>,
     results |->
      <<[word |-> <<"m","a","s","t","i","f","f">>, similarity |-> 79, language |-> "en"],
       [word |-> <<"g","r","e","a","t","h","o","u","n","d">>, similarity |-> 74, language |-> "en"],
       [word |-> <<"r","o","t","t","w","e","i","l","e","r">>, similarity |-> 69, language |-> "en"]>>],
    [key |-> <<"c","o","m","p","u","t","e","r","+","f","a","s","t">>,
     results |->
      <<[word |-> <<"s","u","p","e","r","c","o","m","p","u","t","e","r">>, similarity |-> 83, language |-> "en"],
       [word |-> <<"w","o","r","k","s","t","a","t","i","o","n">>, similarity |-> 77, language |-> "en"],
       [word |-> <<"p","r","o","c","e","s","s","o","r">>, similarity |-> 72, language |-> "en"]>>],
    [key |-> <<"p","h","o","n","e","+","s","m","a","r","t">>,
     results |->
      <<[word |-> <<"s","m","a","r","t","p","h","o","n","e">>, similarity |-> 91, language |-> "en"],
       [word |-> <<"i","p","h","o","n","e">>, similarity |-> 84, language |-> "en"],
       [word |-> <<"a","n","d","r","o","i","d">>, similarity |-> 78, language |-> "en"]>>],
    [key |-> <<"s","u","n","+","h","o","t">>,
     results |->
      <<[word |-> <<"d","e","s","e","r","t">>, similarity |-> 81, language |-> "en"],
       [word |-> <<"s","u","m","m","e","r">>, similarity |-> 76, language |-> "en"],
       [word |-> <<"t","r","o","p","i","c","a","l">>, similarity |-> 71, language |-> "en"]>>],
    [key |-> <<"r","a","i","n","+","c","o","l","d">>,
     results |->
      <<[word |-> <<"s","t","o","r","m">>, similarity |-> 79, language |-> "en"],
       [word |-> <<"w","i","n","t","e","r">>, similarity |-> 74, language |-> "en"],
       [word |-> <<"b","l","i","z","z","a","r","d">>, similarity |-> 68, language |-> "en"]>>],
    [key |-> <<"l","o","v","e","+","m","u","s","i","c">>,
     results |->
      <<[word |-> <<"p","a","s","s","i","o","n">>, similarity |-> 82, language |-> "en"],
       [word |-> <<"m","e","l","o","d","y">>, similarity |-> 76, language |-> "en"],
       [word |-> <<"h","a","r","m","o","n","y">>, similarity |-> 71, language |-> "en"]>>],
    [key |-> <<"b","o","o","k","+","r","e","a","d">>,
     results |->
      <<[word |-> <<"n","o","v","e","l">>, similarity |-> 84, language |-> "en"],
       [word |-> <<"s","t","o","r","y">>, similarity |-> 78, language |-> "en"],
       [word |-> <<"l","i","t","e","r","a","t","u","r","e">>, similarity |-> 73, language |-> "en"]>>],
    [key |-> <<"c","a","r","+","s","p","e","e","d">>,
     results |->
      <<[word |-> <<"r","a","c","e","c","a","r">>, similarity |-> 86, language |-> "en"],
       [word |-> <<"m","o","t","o","r","c","y","c","l","e">>, similarity |-> 79, language |-> "en"],
       [word |-> <<"f","e","r","r","a","r","i">>, similarity |-> 74, language |-> "en"]>>]>>

\* the word lists of generateContextualResults and what each one returns
wordCategories ==
  <<[words |-> {<<"c","a","t">>, <<"d","o","g">>, <<"b","i","r","d">>, <<"f","i","s","h">>, <<"l","i","o","n">>, <<"t","i","g","e","r">>, <<"e","l","e","p","h","a","n","t">>, <<"m","o","u","s","e">>, <<"h","o","r","s","e">>, <<"c","o","w">>},
     results |->
      <<[word |-> <<"c","r","e","a","t","u","r","e">>, similarity |-> 76, language |-> "en"],
       [word |-> <<"m","a","m","m","a","l">>, similarity |-> 71, language |-> "en"],
       [word |-> <<"w","i","l","d","l","i","f","e">>, similarity |-> 68, language |-> "en"]>>],
    [words |-> {<<"r","e","d">>, <<"b","l","u","e">>, <<"g","r","e","e","n">>, <<"y","e","l","l","o","w">>, <<"b","l","a","c","k">>, <<"w","h","i","t","e">>, <<"p","u","r","p","l","e">>, <<"o","r","a","n","g","e">>, <<"p","i","n","k">>, <<"b","r","o","w","n">>},
     results |->
      <<[word |-> <<"c","o","l","o","r","f","u","l">>, similarity |-> 78, language |-> "en"],
       [word |-> <<"v","i","b","r","a","n","t">>, similarity |-> 73, language |-> "en"],
       [word |-> <<"b","r","i","g","h","t">>, similarity |-> 69, language |-> "en"]>>],
    [words |-> {<<"h","a","p","p","y">>, <<"s","a","d">>, <<"a","n","g","r","y">>, <<"j","o","y">>, <<"l","o","v","e">>, <<"f","e","a","r">>, <<"s","u","r","p","r","i","s","e">>, <<"c","a","l","m">>, <<"e","x","c","i","t","e","d">>},
     results |->
      <<[word |-> <<"f","e","e","l","i","n","g">>, similarity |-> 79, language |-> "en"],
       [word |-> <<"e","m","o","t","i","o","n">>, similarity |-> 74, language |-> "en"],
       [word |-> <<"m","o","o","d">>, similarity |-> 70, language |-> "en"]>>],
    [words |-> {<<"a","p","p","l","e">>, <<"b","a","n","a","n","a">>, <<"b","r","e","a","d">>, <<"c","h","e","e","s","e">>, <<"m","e","a","t">>, <<"p","i","z","z","a">>, <<"c","a","k","e">>, <<"c","o","f","f","e","e">>, <<"t","e","a">>, <<"w","a","t","e","r">>},
     results |->
      <<[word |-> <<"d","e","l","i","c","i","o","u","s">>, similarity |-> 77, language |-> "en"],
       [word |-> <<"t","a","s","t","y">>, similarity |-> 72, language |-> "en"],
       [word |-> <<"n","u","t","r","i","t","i","o","u","s">>, similarity |-> 67, language |-> "en"]>>]>>

lastResortResults ==
  <<[word |-> <<"d","i","s","c","o","v","e","r","y">>, similarity |-> 75, language |-> "en"],
       [word |-> <<"i","n","n","o","v","a","t","i","o","n">>, similarity |-> 68, language |-> "en"],
       [word |-> <<"c","r","e","a","t","i","o","n">>, similarity |-> 62, language |-> "en"]>>

generateContextualResults(word1, word2, operation) ==
  LET w1 == toLowerCase(word1)
      w2 == toLowerCase(word2)
      Matches(i) == w1 \in wordCategories[i].words \/ w2 \in wordCategories[i].words
  IN  IF \E i \in 1..Len(wordCategories) : Matches(i)
      THEN wordCategories[CHOOSE i \in 1..Len(wordCategories) :
                            Matches(i) /\ \A j \in 1..(i - 1) : ~Matches(j)].results
      ELSE <<>>

\* embedding-service.ts: generateDemoSimilarWords
generateDemoSimilarWordsExtended(word1, word2, operation) ==
  LET key == toLowerCase(word1) \o <<operation>> \o toLowerCase(word2)
      fallbackResults == generateContextualResults(word1, word2, operation)
  IN  IF \E i \in 1..Len(extendedDemoResults) : extendedDemoResults[i].key = key
      THEN extendedDemoResults[CHOOSE i \in 1..Len(extendedDemoResults) :
                                 extendedDemoResults[i].key = key].results
      ELSE IF Len(fallbackResults) > 0 THEN fallbackResults
      ELSE lastResortResults

\* ------------------------------------------------------------ state values
NoCall == [fn |-> "none"]

NotReturned == [ok |-> FALSE, value |-> <<>>, error |-> "pending", left |-> 0, right |-> 0]

\* degraded is what a caller reads under that name: neither route ever sets
\* such a field, so it stays what it is here
NoResponse ==
  [status |-> 0, success |-> FALSE, results |-> <<>>, data |-> <<>>,
   dims |-> <<>>, size |-> 0, error |-> "none", degraded |-> FALSE]

IdleTask ==
  [kind |-> "none", raw |-> <<>>, texts |-> <<>>, op |-> "+",
   embeddings |-> <<>>, log |-> <<>>, pc |-> "idle", response |-> NoResponse]

\* z.string().min(1).max(100)
ValidWord(w) == Len(w) >= MinWordLength /\ Len(w) <= MaxWordLength

\* z.array(...).min(1).max(10)
MaxWordsPerRequest == 10

ValidWords(words) ==
  /\ Len(words) >= 1
  /\ Len(words) <= MaxWordsPerRequest
  /\ \A i \in 1..Len(words) : ValidWord(words[i])

InvalidRequest ==
  [NoResponse EXCEPT !.status = 400, !.error = "Invalid request format"]

\* word.trim().toLowerCase() of both routes
CleanWord(word) == toLowerCase(trim(word))

\* the word lists a client may post to /api/embeddings
RECURSIVE ListsOf(_, _)
ListsOf(S, n) ==
  IF n = 0 THEN {<<>>}
  ELSE LET shorter == ListsOf(S, n - 1)
       IN  shorter \cup {Append(l, x) : l \in {m \in shorter : Len(m) = n - 1}, x \in S}

DirectLists == ListsOf(DirectTexts, MaxWords)

WordLists ==
  ListsOf(RawWords, MaxWords) \cup {[i \in 1..(MaxWordsPerRequest + 1) |-> W_king]}

\* ------------------------------------------------- the end of a request
\* similarity/route.ts after the batch: arithmetic, demo results, response
CompleteSimilarity(task) ==
  LET embedding1 == task.embeddings[1]
      embedding2 == task.embeddings[2]
      resultVector == performWordArithmetic(embedding1, embedding2, task.op)
  IN  IF IsError(resultVector)
      THEN [NoResponse EXCEPT !.status = 500, !.error = resultVector.error]
      ELSE [NoResponse EXCEPT
              !.status = 200, !.success = TRUE,
              !.results = generateDemoSimilarWords(task.texts[1], task.texts[2], task.op),
              !.dims = <<Len(embedding1)>>]

\* embeddings/route.ts after the batch: word -> embedding, cache statistics.
\* data[word].slot is the index i of the embeddings[i] that the reduce leaves
\* under the word (the last one, when a word comes twice).
CompleteEmbeddings(task, c) ==
  LET cleanWords == task.texts
      words == {cleanWords[i] : i \in 1..Len(cleanWords)}
      last(wd) == CHOOSE i \in 1..Len(cleanWords) :
                    /\ cleanWords[i] = wd
                    /\ \A j \in 1..Len(cleanWords) : cleanWords[j] = wd => j <= i
  IN  [NoResponse EXCEPT
         !.status = 200, !.success = TRUE,
         !.data = [wd \in words |->
                     [slot |-> last(wd), dimension |-> Len(task.embeddings[last(wd)])]],
         !.dims = [i \in 1..Len(cleanWords) |-> Len(task.embeddings[i])],
         !.size = getCacheStats(c).size]

Complete(task, c) ==
  CASE task.kind = "similarity" -> CompleteSimilarity(task)
    [] task.kind = "embeddings" -> CompleteEmbeddings(task, c)
    [] OTHER -> NoResponse

\* getBatchEmbeddings: the loop goes on, or the batch is returned
Advance(task, c) ==
  IF Len(task.embeddings) = Len(task.texts)
  THEN [task EXCEPT !.pc = "done", !.response = Complete(task, c)]
  ELSE [task EXCEPT !.pc = "call"]

CurrentText(task) == task.texts[Len(task.embeddings) + 1]

\* mutant: the vector is put in front of the batch (unshift for push)
Returned_Unshifts(task, src, gen, vec, c, t) ==
  Advance([task EXCEPT
             !.embeddings = <<vec>> \o @,
             !.log = Append(@, [text |-> CurrentText(task), outcome |-> "returned",
                                src |-> src, gen |-> gen, at |-> t])],
          c)

\* getEmbedding returned vec; getBatchEmbeddings pushes it
Returned(task, src, gen, vec, c, t) ==
  Advance([task EXCEPT
             !.embeddings = Append(@, vec),
             !.log = Append(@, [text |-> CurrentText(task), outcome |-> "returned",
                                src |-> src, gen |-> gen, at |-> t])],
          c)

\* mutant: no try/catch in the loop, the batch ends with the error
Thrown_AbortsBatch(task, gen, c, t) ==
  [task EXCEPT
     !.log = Append(@, [text |-> CurrentText(task), outcome |-> "thrown",
                        src |-> "none", gen |-> gen, at |-> t]),
     !.pc = "done",
     !.response = [NoResponse EXCEPT !.status = 500,
                                     !.error = "Failed to generate embedding"]]

\* getEmbedding threw; getBatchEmbeddings pushes new Array(384).fill(0)
Thrown(task, gen, c, t) ==
  Advance([task EXCEPT
             !.embeddings = Append(@, ZeroVector),
             !.log = Append(@, [text |-> CurrentText(task), outcome |-> "thrown",
                                src |-> "none", gen |-> gen, at |-> t])],
          c)

StartBatch(kind, raw, texts, operation) ==
  Advance([IdleTask EXCEPT !.kind = kind, !.raw = raw, !.texts = texts,
                           !.op = operation], cache)

\* --------------------------------------------------------- cost protection
IdleBudgetCall == [pc |-> "idle", cost |-> 0, decision |-> "none"]

NoBudgetCalls == [c \in 1..MaxBudgetCalls |-> IdleBudgetCall]

\* ------------------------------------------------------------ rate limiter
Ips == {"ip1", "ip2"}

\* private requests = new Map<string, number[]>(); get(ip) || []
NoRequests == [ip \in Ips |-> <<>>]

\* userRequests.filter(time => now - time < window)
RECURSIVE RecentRequests(_, _, _)
RecentRequests(userRequests, t, window) ==
  IF userRequests = <<>> THEN <<>>
  ELSE IF t - Head(userRequests) < window
  THEN <<Head(userRequests)>> \o RecentRequests(Tail(userRequests), t, window)
  ELSE RecentRequests(Tail(userRequests), t, window)

CanStart(t) == tasks[t].pc = "idle" /\ requests < MaxRequests

\* ----------------------------------------------------------------- actions
InitWith(n) ==
  /\ mockFallback \in BOOLEAN
  /\ apiKey \in BOOLEAN
  /\ mockFallback \/ apiKey
  /\ cache = EmptyCache
  /\ now = 0
  /\ ticks = 0
  /\ requests = 0
  /\ tasks = [t \in 1..n |-> IdleTask]
  /\ limiter = NoRequests
  /\ currentSpend = 0
  /\ budgetCalls = NoBudgetCalls
  /\ args = NoCall
  /\ returned = NotReturned

Init == InitWith(1)

\* POST /api/similarity up to the call of getBatchEmbeddings
StartSimilarity(t, word1, word2, operation) ==
  /\ requests' = requests + 1
  /\ tasks' = [tasks EXCEPT ![t] =
       IF ValidWord(word1) /\ ValidWord(word2)
       THEN StartBatch("similarity", <<word1, word2>>,
                       <<CleanWord(word1), CleanWord(word2)>>, operation)
       ELSE [IdleTask EXCEPT !.kind = "similarity", !.raw = <<word1, word2>>,
                             !.pc = "done", !.response = InvalidRequest]]
  /\ UNCHANGED <<mockFallback, apiKey, cache, now, ticks, callVars, guardVars>>

SimilarityPOST(t, word1, word2, operation) ==
  /\ CanStart(t)
  /\ StartSimilarity(t, word1, word2, operation)

\* page.tsx handleSubmit: the form posts the trimmed words
handleSubmit(t, word1, word2, operation) ==
  /\ CanStart(t)
  /\ IF trim(word1) = <<>> \/ trim(word2) = <<>>
     THEN UNCHANGED vars
     ELSE StartSimilarity(t, trim(word1), trim(word2), operation)

\* POST /api/embeddings up to the call of getBatchEmbeddings
EmbeddingsPOST(t, words) ==
  /\ CanStart(t)
  /\ requests' = requests + 1
  /\ tasks' = [tasks EXCEPT ![t] =
       IF ValidWords(words)
       THEN StartBatch("embeddings", words,
                       [i \in 1..Len(words) |-> CleanWord(words[i])], "+")
       ELSE [IdleTask EXCEPT !.kind = "embeddings", !.raw = words,
                             !.pc = "done", !.response = InvalidRequest]]
  /\ UNCHANGED <<mockFallback, apiKey, cache, now, ticks, callVars, guardVars>>

\* embeddingService.getBatchEmbeddings(texts) called with the texts as they are
BatchCall(t, texts) ==
  /\ CanStart(t)
  /\ requests' = requests + 1
  /\ tasks' = [tasks EXCEPT ![t] = StartBatch("batch", texts, texts, "+")]
  /\ UNCHANGED <<mockFallback, apiKey, cache, now, ticks, callVars, guardVars>>

\* getEmbedding up to its await: cache lookup, key check, generator call
GetEmbeddingCall(t) ==
  /\ tasks[t].pc = "call"
  /\ LET task == tasks[t]
         text == CurrentText(task)
         cacheKey == cacheKeyOf(text)
     IN  tasks' = [tasks EXCEPT ![t] =
           IF CacheFresh(cache, cacheKey, now)
           THEN Returned(task, "cache", FALSE, cache[cacheKey].embedding, cache, now)
           ELSE IF mockFallback /\ ~apiKey
           THEN Returned(task, "mock", FALSE, SyntheticVectors[text], cache, now)
           ELSE [task EXCEPT !.pc = "await"]]
  /\ UNCHANGED <<mockFallback, apiKey, cache, now, ticks, requests, callVars, guardVars>>

\* mutant: the build with the fallback rethrows the failure all the same
GeneratorResponds_Rethrows(t, response) ==
  /\ tasks[t].pc = "await"
  /\ LET task == tasks[t]
         text == CurrentText(task)
         cacheKey == cacheKeyOf(text)
         embedding == ExtractEmbedding(response)
         stored == CacheSet(cache, cacheKey,
                            [embedding |-> embedding, timestamp |-> now])
     IN  IF ~ResponseFails(response)
         THEN /\ cache' = stored
              /\ tasks' = [tasks EXCEPT ![t] =
                   Returned(task, "generated", TRUE, embedding, stored, now)]
         ELSE /\ cache' = cache
              /\ tasks' = [tasks EXCEPT ![t] = Thrown(task, TRUE, cache, now)]
  /\ UNCHANGED <<mockFallback, apiKey, now, ticks, requests, callVars, guardVars>>

\* a service that also stores what its fallback made up
GeneratorResponds_CachesFallback(t, response) ==
  /\ tasks[t].pc = "await"
  /\ LET task == tasks[t]
         text == CurrentText(task)
         cacheKey == cacheKeyOf(text)
         embedding == ExtractEmbedding(response)
         stored == CacheSet(cache, cacheKey,
                            [embedding |-> embedding, timestamp |-> now])
         made == CacheSet(cache, cacheKey,
                          [embedding |-> SyntheticVectors[text], timestamp |-> now])
     IN  IF ~ResponseFails(response)
         THEN /\ cache' = stored
              /\ tasks' = [tasks EXCEPT ![t] =
                   Returned(task, "generated", TRUE, embedding, stored, now)]
         ELSE IF mockFallback
         THEN /\ cache' = made
              /\ tasks' = [tasks EXCEPT ![t] =
                   Returned(task, "mock", TRUE, SyntheticVectors[text], made, now)]
         ELSE /\ cache' = cache
              /\ tasks' = [tasks EXCEPT ![t] = Thrown(task, TRUE, cache, now)]
  /\ UNCHANGED <<mockFallback, apiKey, now, ticks, requests, callVars, guardVars>>

\* getEmbedding after its await: the generator answered or failed
GeneratorResponds(t, response) ==
  /\ tasks[t].pc = "await"
  /\ LET task == tasks[t]
         text == CurrentText(task)
         cacheKey == cacheKeyOf(text)
         embedding == ExtractEmbedding(response)
         stored == CacheSet(cache, cacheKey,
                            [embedding |-> embedding, timestamp |-> now])
     IN  IF ~ResponseFails(response)
         THEN /\ cache' = stored
              /\ tasks' = [tasks EXCEPT ![t] =
                   Returned(task, "generated", TRUE, embedding, stored, now)]
         ELSE /\ cache' = cache
              /\ tasks' = [tasks EXCEPT ![t] =
                   IF mockFallback
                   THEN Returned(task, "mock", TRUE, SyntheticVectors[text], cache, now)
                   ELSE Thrown(task, TRUE, cache, now)]
  /\ UNCHANGED <<mockFallback, apiKey, now, ticks, requests, callVars, guardVars>>

\* the response has been sent and the handler's frame is gone
Respond(t) ==
  /\ tasks[t].pc = "done"
  /\ tasks' = [tasks EXCEPT ![t] = IdleTask]
  /\ UNCHANGED <<mockFallback, apiKey, cache, now, ticks, requests, callVars, guardVars>>

\* the wall clock moves on by half a cache lifetime
TickStep == cacheTimeout \div 2

Tick ==
  /\ ticks < MaxTicks
  /\ ticks' = ticks + 1
  /\ now' = now + TickStep
  /\ UNCHANGED <<mockFallback, apiKey, cache, requests, tasks, callVars, guardVars>>

Next ==
  \/ \E t \in DOMAIN tasks, word1 \in RawWords, word2 \in RawWords, operation \in Operations :
       SimilarityPOST(t, word1, word2, operation)
  \/ \E t \in DOMAIN tasks, word1 \in RawWords, word2 \in RawWords, operation \in Operations :
       handleSubmit(t, word1, word2, operation)
  \/ \E t \in DOMAIN tasks, words \in WordLists : EmbeddingsPOST(t, words)
  \/ \E t \in DOMAIN tasks, texts \in DirectLists : BatchCall(t, texts)
  \/ \E t \in DOMAIN tasks : GetEmbeddingCall(t)
  \/ \E t \in DOMAIN tasks, response \in Responses : GeneratorResponds(t, response)
  \/ \E t \in DOMAIN tasks : Respond(t)
  \/ Tick

Spec == Init /\ [][Next]_vars

\* The handlers run on the event loop of one process: a continuation that is
\* ready to run does run, and a finished handler sends its response.  Nothing
\* makes the generator answer: hf.featureExtraction is awaited with no
\* timeout, so no fairness is stated for GeneratorResponds.
Fairness ==
  /\ WF_vars(\E t \in 1..1 : GetEmbeddingCall(t))
  /\ WF_vars(\E t \in 1..1 : Respond(t))

SpecLive == Spec /\ Fairness

\* --------------------------------------------- findMostSimilar on its own
W_man == <<"m","a","n">>
W_Man == <<"M","a","n">>
W_queen == <<"q","u","e","e","n">>

RankWords == {W_man, W_Man, W_queen}

RankVectors == {<<1, 0>>, <<1, 1>>, <<0, 0>>, <<1>>}

RankTargets == {<<1, 0>>, <<0, 1>>}

CandidatePool ==
  {[word |-> w, vector |-> v, language |-> "en"] : w \in RankWords, v \in RankVectors}

ExcludeLists == {<<>>, <<W_man>>, <<W_Man>>, <<W_queen, W_Man>>}

RankInputs ==
  {[fn |-> "findMostSimilar", targetVector |-> t, candidateVectors |-> c,
    topK |-> k, excludeWords |-> e] :
     t \in RankTargets, c \in ListsOf(CandidatePool, MaxCandidates),
     k \in {1, 3}, e \in ExcludeLists}

ServiceAtRest ==
  /\ mockFallback = TRUE
  /\ apiKey = TRUE
  /\ cache = EmptyCache
  /\ now = 0
  /\ ticks = 0
  /\ requests = 0
  /\ tasks = [t \in 1..1 |-> IdleTask]
  /\ limiter = NoRequests
  /\ currentSpend = 0
  /\ budgetCalls = NoBudgetCalls

InitRank ==
  /\ ServiceAtRest
  /\ args \in RankInputs
  /\ returned = NotReturned

RankCall ==
  /\ args.fn = "findMostSimilar"
  /\ returned = NotReturned
  /\ returned' = findMostSimilar(args.targetVector, args.candidateVectors,
                                 args.topK, args.excludeWords)
  /\ UNCHANGED <<serviceVars, guardVars, args>>

NextRank == RankCall

SpecRank == InitRank /\ [][NextRank]_vars

\* ------------------------------------------ the vector operations on their own
Components == {-1, 0, 2}

RECURSIVE VectorsUpTo(_)
VectorsUpTo(n) ==
  IF n = 0 THEN {<<>>}
  ELSE VectorsUpTo(n - 1) \cup [1..n -> Components]

BinaryOperations ==
  {"addVectors", "subtractVectors", "cosineSimilarity", "euclideanDistance",
   "manhattanDistance", "performWordArithmetic"}

VectorInputs ==
  {[fn |-> f, v1 |-> a, v2 |-> b, operation |-> o] :
     f \in BinaryOperations, a \in VectorsUpTo(MaxDim), b \in VectorsUpTo(MaxDim),
     o \in Operations}

InitVector ==
  /\ ServiceAtRest
  /\ args \in VectorInputs
  /\ args.fn # "performWordArithmetic" => args.operation = "+"
  /\ returned = NotReturned

Pending(fn) == args.fn = fn /\ returned.error = "pending"

AddCall ==
  /\ Pending("addVectors")
  /\ returned' = addVectors(args.v1, args.v2)
  /\ UNCHANGED <<serviceVars, guardVars, args>>

SubtractCall ==
  /\ Pending("subtractVectors")
  /\ returned' = subtractVectors(args.v1, args.v2)
  /\ UNCHANGED <<serviceVars, guardVars, args>>

CosineCall ==
  /\ Pending("cosineSimilarity")
  /\ returned' = cosineSimilarity(args.v1, args.v2)
  /\ UNCHANGED <<serviceVars, guardVars, args>>

EuclideanCall ==
  /\ Pending("euclideanDistance")
  /\ returned' = euclideanDistance(args.v1, args.v2)
  /\ UNCHANGED <<serviceVars, guardVars, args>>

ManhattanCall ==
  /\ Pending("manhattanDistance")
  /\ returned' = manhattanDistance(args.v1, args.v2)
  /\ UNCHANGED <<serviceVars, guardVars, args>>

ArithmeticCall ==
  /\ Pending("performWordArithmetic")
  /\ returned' = performWordArithmetic(args.v1, args.v2, args.operation)
  /\ UNCHANGED <<serviceVars, guardVars, args>>

NextVector ==
  \/ AddCall
  \/ SubtractCall
  \/ CosineCall
  \/ EuclideanCall
  \/ ManhattanCall
  \/ ArithmeticCall

SpecVector == InitVector /\ [][NextVector]_vars

\* --------------------------------- generateDemoSimilarWords on its own
DemoWords ==
  {W_king, W_man,
   <<"K","i","n","g">>,
   <<"h","a","p","p","y">>,
   <<"j","o","y">>,
   <<"a","p","p","l","e">>,
   <<"r","e","d">>,
   <<"d","o","g">>,
   <<"b","i","g">>,
   <<"r","e","s","u","l","t","1">>,
   <<"d","i","s","c","o","v","e","r","y">>,
   <<"f","e","e","l","i","n","g">>,
   <<"x","y","z">>}

DemoInputs ==
  {[fn |-> f, word1 |-> a, word2 |-> b, operation |-> o] :
     f \in {"generateDemoSimilarWords", "generateDemoSimilarWordsExtended"},
     a \in DemoWords, b \in DemoWords, o \in Operations}

InitDemo ==
  /\ ServiceAtRest
  /\ args \in DemoInputs
  /\ returned = NotReturned

\* the similarity route, lines 20-21 and 36: the words are cleaned and handed
\* to the generateDemoSimilarWords of vector-operations.ts
DemoCall ==
  /\ Pending("generateDemoSimilarWords")
  /\ returned' = Ok(generateDemoSimilarWords(CleanWord(args.word1),
                                             CleanWord(args.word2), args.operation))
  /\ UNCHANGED <<serviceVars, guardVars, args>>

\* the generateDemoSimilarWords of embedding-service.ts
ExtendedDemoCall ==
  /\ Pending("generateDemoSimilarWordsExtended")
  /\ returned' = Ok(generateDemoSimilarWordsExtended(args.word1, args.word2,
                                                     args.operation))
  /\ UNCHANGED <<serviceVars, guardVars, args>>

NextDemo == DemoCall \/ ExtendedDemoCall

SpecDemo == InitDemo /\ [][NextDemo]_vars

\* --------------------------------------------------- RateLimiter on its own
\* the caller keeps maxRequests and window and asks for one ip after another
LimiterInputs ==
  {[fn |-> "isAllowed", ip |-> ip, maxRequests |-> m, window |-> DefaultWindow] :
     ip \in Ips, m \in 1..MaxAdmitted}

InitLimiter ==
  /\ ServiceAtRest
  /\ args \in LimiterInputs
  /\ returned = NotReturned

\* a limiter that never forgets an admitted request
isAllowed_KeepsOld(ip) ==
  LET userRequests == limiter[ip]
  IN  /\ args' = [args EXCEPT !.ip = ip]
      /\ IF Len(userRequests) >= args.maxRequests
         THEN returned' = Ok(FALSE) /\ UNCHANGED limiter
         ELSE /\ limiter' = [limiter EXCEPT ![ip] = Append(userRequests, now)]
              /\ returned' = Ok(TRUE)
      /\ UNCHANGED <<serviceVars, budgetVars>>

\* RateLimiter.isAllowed(ip, maxRequests, window)
isAllowed(ip) ==
  LET userRequests == limiter[ip]
      recentRequests == RecentRequests(userRequests, now, args.window)
  IN  /\ args' = [args EXCEPT !.ip = ip]
      /\ IF Len(recentRequests) >= args.maxRequests
         THEN returned' = Ok(FALSE) /\ UNCHANGED limiter
         ELSE /\ limiter' = [limiter EXCEPT ![ip] = Append(recentRequests, now)]
              /\ returned' = Ok(TRUE)
      /\ UNCHANGED <<serviceVars, budgetVars>>

\* Date.now() moves on by half a window
LimiterTick ==
  /\ ticks < MaxTicks
  /\ ticks' = ticks + 1
  /\ now' = now + (args.window \div 2)
  /\ UNCHANGED <<mockFallback, apiKey, cache, requests, tasks, callVars, guardVars>>

NextLimiter ==
  \/ \E ip \in Ips : isAllowed(ip)
  \/ LimiterTick

SpecLimiter == InitLimiter /\ [][NextLimiter]_vars

\* ----------------------------------------------- CostProtection on its own
\* what estimateRequestCost may answer, in cents
RequestCosts == {40, 60, 100}

InitBudget ==
  /\ ServiceAtRest
  /\ args = NoCall
  /\ returned = NotReturned

\* processWithAPI is called by processRequest and defined nowhere: as the
\* budget guard is specified, letting a request proceed adds its cost
\* estimate to the day's spend in the same step as the check
processWithAPI(spend, cost) == spend + cost

\* a guard that only stops when the budget is already used up
processRequest_ChecksExhaustedOnly(c, cost) ==
  /\ budgetCalls[c].pc = "idle"
  /\ IF currentSpend >= dailyBudget
     THEN /\ budgetCalls' = [budgetCalls EXCEPT ![c] =
                 [pc |-> "done", cost |-> cost, decision |-> "Reject"]]
          /\ UNCHANGED currentSpend
     ELSE /\ budgetCalls' = [budgetCalls EXCEPT ![c] =
                 [pc |-> "api", cost |-> cost, decision |-> "Proceed"]]
          /\ currentSpend' = processWithAPI(currentSpend, cost)
  /\ UNCHANGED <<serviceVars, callVars, limiter>>

\* CostProtection.processRequest up to the promise it returns: the body has
\* no await, so the checks and the call of processWithAPI are one step
processRequest(c, cost) ==
  /\ budgetCalls[c].pc = "idle"
  /\ IF currentSpend >= dailyBudget
     THEN /\ budgetCalls' = [budgetCalls EXCEPT ![c] =
                 [pc |-> "done", cost |-> cost, decision |-> "Reject"]]
          /\ UNCHANGED currentSpend
     ELSE IF currentSpend + cost > dailyBudget
     THEN /\ budgetCalls' = [budgetCalls EXCEPT ![c] =
                 [pc |-> "done", cost |-> cost, decision |-> "CacheOnly"]]
          /\ UNCHANGED currentSpend
     ELSE /\ budgetCalls' = [budgetCalls EXCEPT ![c] =
                 [pc |-> "api", cost |-> cost, decision |-> "Proceed"]]
          /\ currentSpend' = processWithAPI(currentSpend, cost)
  /\ UNCHANGED <<serviceVars, callVars, limiter>>

\* the promise of processWithAPI settles
RequestSettles(c) ==
  /\ budgetCalls[c].pc = "api"
  /\ budgetCalls' = [budgetCalls EXCEPT ![c].pc = "done"]
  /\ UNCHANGED <<serviceVars, callVars, limiter, currentSpend>>

NextBudget ==
  \/ \E c \in DOMAIN budgetCalls, cost \in RequestCosts : processRequest(c, cost)
  \/ \E c \in DOMAIN budgetCalls : RequestSettles(c)

SpecBudget == InitBudget /\ [][NextBudget]_vars

\* ----------------------------------------------- detectLanguage on its own
DetectChars ==
  {"k", "I", "U+00E7", "U+00C7", "U+00E9", "U+0645", "U+4E2D", "U+0434", "U+0414"}

RECURSIVE TextsUpTo(_)
TextsUpTo(n) ==
  IF n = 0 THEN {<<>>}
  ELSE TextsUpTo(n - 1) \cup [1..n -> DetectChars]

InitDetect ==
  /\ ServiceAtRest
  /\ args \in {[fn |-> "detectLanguage", text |-> text] : text \in TextsUpTo(MaxTextLen)}
  /\ returned = NotReturned

DetectCall ==
  /\ Pending("detectLanguage")
  /\ returned' = Ok(detectLanguage(args.text))
  /\ UNCHANGED <<serviceVars, guardVars, args>>

NextDetect == DetectCall

SpecDetect == InitDetect /\ [][NextDetect]_vars

\* ================================================================= claims
\* what the claims observe of a handler
Items(t) == 1..Len(tasks[t].log)

\* task t moved from its cache lookup to something else in this step
Looked(t) == tasks[t].pc = "call" /\ tasks'[t] # tasks[t]

\* task t got its generator's answer in this step
Answered(t) == tasks[t].pc = "await" /\ tasks'[t] # tasks[t]

\* the item that getEmbedding appended to the log of t in this step, and the
\* vector that getBatchEmbeddings got for it
NewItem(t) == tasks'[t].log[Len(tasks[t].log) + 1]

NewVector(t) == tasks'[t].embeddings[Len(tasks[t].log) + 1]

\* getEmbedding finished for task t in this step (returned or threw)
Finished(t) == Len(tasks'[t].log) = Len(tasks[t].log) + 1

\* the lowercase-trimmed form of a text, as the claims understand it
NormalForm(text) == toLowerCase(trim(text))

C2_KeysNormalized ==
  [][/\ \A k1 \in DOMAIN cache', k2 \in DOMAIN cache' :
          NormalForm(k1) = NormalForm(k2) => k1 = k2
     /\ \A t \in DOMAIN tasks :
          LET text == CurrentText(tasks[t])
          IN  /\ (Answered(t) /\ NewItem(t).src = "generated")
                   => /\ DOMAIN cache' = DOMAIN cache \cup {NormalForm(text)}
                      /\ \A k \in DOMAIN cache : k # NormalForm(text) => cache'[k] = cache[k]
              /\ \A k \in DOMAIN cache :
                   (/\ Looked(t)
                    /\ NormalForm(k) = NormalForm(text)
                    /\ now - cache[k].timestamp < cacheTimeout)
                     => (Finished(t) /\ NewVector(t) = cache[k].embedding)]_vars

\* a text that is not in normal form was served by the entry of its normal form
C2_Witness ==
  \E t \in DOMAIN tasks : \E i \in Items(t) :
    LET item == tasks[t].log[i]
    IN  /\ item.src = "cache"
        /\ item.text # NormalForm(item.text)
        /\ DOMAIN cache = {NormalForm(item.text)}

\* C3: a resolve that finds a fresh entry returns it in the same step without
\* calling the generator, and the generator is called only by a resolve that
\* found no fresh entry.
C3_HitSkipsGenerator ==
  [][\A t \in DOMAIN tasks :
       LET key == NormalForm(CurrentText(tasks[t]))
           fresh == key \in DOMAIN cache /\ now - cache[key].timestamp < cacheTimeout
       IN  /\ (Looked(t) /\ fresh)
                => /\ tasks'[t].pc # "await"
                   /\ Finished(t)
                   /\ ~NewItem(t).gen
                   /\ NewItem(t).src = "cache"
           /\ (Looked(t) /\ tasks'[t].pc = "await") => ~fresh
           /\ (Finished(t) /\ NewItem(t).gen) => tasks[t].pc = "await"]_vars

\* one batch called the generator for its first text and served the second
\* from the cache without a call
C3_Witness ==
  \E t \in DOMAIN tasks :
    /\ Len(tasks[t].log) = 2
    /\ tasks[t].log[1].gen /\ tasks[t].log[1].src = "generated"
    /\ ~tasks[t].log[2].gen /\ tasks[t].log[2].src = "cache"
    /\ tasks[t].embeddings[2] = tasks[t].embeddings[1]

\* a generator call of this item failed: it was made and gave no embedding
GeneratorFailed(item) == item.gen /\ item.src # "generated"

\* C4 as stated: whenever the generator call fails, resolve returns the
\* synthetic vector and no error reaches its caller.
C4_FailureNeverPropagates ==
  \A t \in DOMAIN tasks : \A i \in Items(t) :
    GeneratorFailed(tasks[t].log[i])
      => (tasks[t].log[i].outcome = "returned" /\ tasks[t].log[i].src = "mock")

\* C4 amended: whenever the generator call fails, the build with the
\* synthetic fallback returns the synthetic vector of the text and no error
\* reaches the caller; the build without it rethrows the failure to the
\* caller of getEmbedding.
C4_FailureFallsBackOrRethrows ==
  \A t \in DOMAIN tasks : \A i \in Items(t) :
    LET item == tasks[t].log[i]
    IN  GeneratorFailed(item)
          => IF mockFallback
             THEN /\ item.outcome = "returned"
                  /\ item.src = "mock"
                  /\ Len(tasks[t].embeddings[i]) = dimension
             ELSE item.outcome = "thrown"

\* the generator failed in the build with the fallback and a vector came back
C4_Witness ==
  \E t \in DOMAIN tasks : \E i \in Items(t) :
    /\ mockFallback
    /\ GeneratorFailed(tasks[t].log[i])
    /\ tasks[t].log[i].outcome = "returned"
    /\ Len(tasks[t].embeddings[i]) = dimension

C6_BatchKeepsOrder ==
  [][\A t \in DOMAIN tasks :
       LET i == Len(tasks[t].embeddings) + 1
           key == NormalForm(tasks[t].texts[i])
       IN  /\ Finished(t)
                => /\ i <= Len(tasks[t].texts)
                   /\ tasks'[t].texts = tasks[t].texts
                   /\ NewItem(t).text = tasks[t].texts[i]
                   /\ Len(tasks'[t].embeddings) = i
                   /\ SubSeq(tasks'[t].embeddings, 1, i - 1) = tasks[t].embeddings
                   /\ NewItem(t).src = "cache" => NewVector(t) = cache[key].embedding
                   /\ NewItem(t).src = "generated" => NewVector(t) = cache'[key].embedding
                   /\ NewItem(t).src = "mock" => Len(NewVector(t)) = dimension
                   /\ NewItem(t).outcome = "thrown" => NewVector(t) = Zeros(384)
                   /\ tasks'[t].pc = "done" <=> i = Len(tasks[t].texts)
           /\ (tasks'[t].pc = "done" /\ tasks'[t].response.status # 400)
                => Len(tasks'[t].embeddings) = Len(tasks'[t].texts)]_vars

\* a returned batch of two different texts with two different vectors
C6_Witness ==
  \E t \in DOMAIN tasks :
    /\ tasks[t].pc = "done"
    /\ Len(tasks[t].texts) = 2
    /\ Len(tasks[t].embeddings) = 2
    /\ tasks[t].texts[1] # tasks[t].texts[2]
    /\ tasks[t].embeddings[1] # tasks[t].embeddings[2]
    /\ tasks[t].log[1].src = "generated"

\* C7: an item whose getEmbedding threw gets the zero vector of length 384 in
\* its slot, the loop goes on with the next text, and the batch is returned
\* with every slot filled.
C7_FailedItemIsZero ==
  \A t \in DOMAIN tasks : \A i \in Items(t) :
    tasks[t].log[i].outcome = "thrown"
      => /\ Len(tasks[t].embeddings) >= i
         /\ tasks[t].embeddings[i] = Zeros(384)
         /\ IF Len(tasks[t].log) < Len(tasks[t].texts)
            THEN tasks[t].pc \in {"call", "await"}
            ELSE /\ tasks[t].pc = "done"
                 /\ Len(tasks[t].embeddings) = Len(tasks[t].texts)

\* the first item failed and the second was still resolved by the generator
C7_Witness ==
  \E t \in DOMAIN tasks :
    /\ tasks[t].pc = "done"
    /\ Len(tasks[t].log) = 2
    /\ tasks[t].log[1].outcome = "thrown"
    /\ tasks[t].embeddings[1] = Zeros(384)
    /\ tasks[t].log[2].src = "generated"
    /\ tasks[t].embeddings[2] # <<>>

\* a word a request must not be accepted with
Unacceptable(word) == trim(word) = <<>> \/ Len(word) > 100

\* a vector that carries nothing: empty, or all zero
ZeroOrEmpty(v) == \A i \in 1..Len(v) : v[i] = 0

\* C8: when no tier resolves either word (no synthetic fallback, the
\* generator fails or answers an empty vector), so that both embeddings are
\* zero or empty, the similarity request fails and returns no result list.
C8_AllTiersFailedIsFailure ==
  \A t \in DOMAIN tasks :
    (/\ tasks[t].kind = "similarity"
     /\ tasks[t].pc = "done"
     /\ ~mockFallback
     /\ \A i \in 1..2 : ~Unacceptable(tasks[t].raw[i])
     /\ Len(tasks[t].log) = 2
     /\ \A i \in 1..2 :
          /\ tasks[t].log[i].gen
          /\ ZeroOrEmpty(tasks[t].embeddings[i]))
      => (~tasks[t].response.success /\ tasks[t].response.results = <<>>)

\* C9: a request to a route with a word that is empty, blank or longer than
\* 100 characters is answered 400 and no getEmbedding is started for it.
C9_BadWordsRejected ==
  \A t \in DOMAIN tasks :
    (/\ tasks[t].kind \in {"similarity", "embeddings"}
     /\ \E i \in 1..Len(tasks[t].raw) : Unacceptable(tasks[t].raw[i]))
      => /\ tasks[t].pc = "done"
         /\ tasks[t].response.status = 400
         /\ tasks[t].log = <<>>

\* C10: no candidate whose word equals an excluded word, ignoring the case of
\* both, is in the output of findMostSimilar.
C10_ExclusionIgnoresCase ==
  (args.fn = "findMostSimilar" /\ returned.ok)
    => \A i \in 1..Len(returned.value) : \A j \in 1..Len(args.excludeWords) :
         toLowerCase(returned.value[i].word) # toLowerCase(args.excludeWords[j])

\* ---------------------------------------------------------------- C11
\* the candidates findMostSimilar scores, and their scores
RankKept == FilterCandidates(args.candidateVectors, args.excludeWords)

RankScore(i) == cosineSimilarity(args.targetVector, RankKept[i].vector).value

SimEqual(a, b) == ~SimGreater(a, b) /\ ~SimGreater(b, a)

\* the place of the i-th scored candidate in a stable descending order:
\* behind all greater ones and behind the equal ones that came before it
StableRank(i) ==
  1 + Cardinality({j \in 1..Len(RankKept) : SimGreater(RankScore(j), RankScore(i))})
    + Cardinality({j \in 1..(i - 1) : SimEqual(RankScore(j), RankScore(i))})

MinOf(a, b) == IF a < b THEN a ELSE b

\* C11: the output of findMostSimilar is ordered by non-increasing
\* similarity, results of equal similarity keep the relative order of the
\* input candidate list, and the output is cut to topK.
C11_RankStableDescending ==
  (args.fn = "findMostSimilar" /\ returned.ok) =>
     /\ Len(returned.value) = MinOf(args.topK, Len(RankKept))
     /\ \A i \in 1..(Len(returned.value) - 1) :
          ~SimGreater(returned.value[i + 1].similarity, returned.value[i].similarity)
     /\ \A i \in 1..Len(RankKept) :
          StableRank(i) <= args.topK =>
            returned.value[StableRank(i)] =
              [word |-> RankKept[i].word, similarity |-> RankScore(i),
               language |-> RankKept[i].language]

\* two results of equal similarity and different words were returned
C11_Witness ==
  /\ args.fn = "findMostSimilar" /\ returned.ok
  /\ Len(returned.value) = 2
  /\ SimEqual(returned.value[1].similarity, returned.value[2].similarity)
  /\ returned.value[1].word # returned.value[2].word
  /\ returned.value[1].word = RankKept[1].word

\* ---------------------------------------------------------------- C12
RankCalled == args.fn = "findMostSimilar" /\ returned # NotReturned

Mismatched(candidate) == Len(candidate.vector) # Len(args.targetVector)

DimensionFailure(result) ==
  ~result.ok /\ result.error = "Vector dimensions must match"

\* C12 as stated: findMostSimilar fails with the dimension error whenever
\* any candidate of the supplied list, excluded or not, has a vector whose
\* length differs from the target's.
C12_AnyMismatchFails ==
  (RankCalled /\ \E i \in 1..Len(args.candidateVectors) :
                   Mismatched(args.candidateVectors[i]))
    => DimensionFailure(returned)

\* C12 as the code has it: findMostSimilar fails with the dimension error,
\* naming the target's length and the candidate's, exactly when a candidate
\* that passed the exclusion filter has a vector of another length; the
\* vectors of filtered-out candidates are never looked at.
C12_MismatchAmongScoredFails ==
  RankCalled =>
    IF \E i \in 1..Len(RankKept) : Mismatched(RankKept[i])
    THEN /\ DimensionFailure(returned)
         /\ returned.left = Len(args.targetVector)
         /\ \E i \in 1..Len(RankKept) :
              Mismatched(RankKept[i]) /\ returned.right = Len(RankKept[i].vector)
    ELSE returned.ok

\* the second of two scored candidates had a vector of another length
C12_Witness ==
  /\ RankCalled
  /\ DimensionFailure(returned)
  /\ Len(RankKept) = 2
  /\ ~Mismatched(RankKept[1])
  /\ Mismatched(RankKept[2])

\* ---------------------------------------------------------------- C13
VectorCalled == args.fn \in BinaryOperations /\ returned.error # "pending"

\* C13: each of addVectors, subtractVectors, cosineSimilarity,
\* euclideanDistance, manhattanDistance and performWordArithmetic ('+' and
\* '-') throws the error that names both lengths and returns nothing when
\* its two vectors differ in length, and returns when they do not.
C13_BinaryOperationsCheckLength ==
  VectorCalled =>
    IF Len(args.v1) # Len(args.v2)
    THEN /\ DimensionFailure(returned)
         /\ returned.left = Len(args.v1)
         /\ returned.right = Len(args.v2)
    ELSE returned.ok

\* a distance of a vector of one component and one of two was asked for
C13_Witness ==
  /\ VectorCalled
  /\ args.fn = "manhattanDistance"
  /\ Len(args.v1) = 2 /\ Len(args.v2) = 1
  /\ DimensionFailure(returned)

\* ---------------------------------------------------------------- C14
DemoCalled ==
  /\ args.fn \in {"generateDemoSimilarWords", "generateDemoSimilarWordsExtended"}
  /\ returned.error # "pending"

\* the result list the same function gives for the same words the other
\* way round
SwappedResults ==
  IF args.fn = "generateDemoSimilarWords"
  THEN generateDemoSimilarWords(CleanWord(args.word2), CleanWord(args.word1),
                                args.operation)
  ELSE generateDemoSimilarWordsExtended(args.word2, args.word1, args.operation)

\* C14: the results returned for word1 and word2 never contain word1 or
\* word2, compared without regard to case, for every pair of words and both
\* operations.
C14_ResultsExcludeInputs ==
  DemoCalled =>
    \A i \in 1..Len(returned.value) :
       /\ toLowerCase(returned.value[i].word) # toLowerCase(args.word1)
       /\ toLowerCase(returned.value[i].word) # toLowerCase(args.word2)

\* ---------------------------------------------------------------- C15
\* C15: for '+' the two words can be exchanged: w1 + w2 and w2 + w1 give
\* the same ranked result list.
C15_PlusCommutes ==
  (DemoCalled /\ args.operation = "+") => returned.value = SwappedResults

\* ---------------------------------------------------------------- C16
\* C16: every successful similarity request returns exactly 3 results and
\* the first result's similarity is greater than 0.5 (50 hundredths), for
\* every pair of words and both operations.
C16_ThreeResultsFirstAboveHalf ==
  DemoCalled =>
    /\ returned.ok
    /\ Len(returned.value) = 3
    /\ returned.value[1].similarity > 50

\* 'King' - 'man' was asked through the route and answered from the table
C16_Witness ==
  /\ DemoCalled
  /\ args.fn = "generateDemoSimilarWords"
  /\ args.word1 = <<"K","i","n","g">> /\ args.word2 = W_man /\ args.operation = "-"
  /\ returned.value[1].word = W_queen
  /\ returned.value[1].similarity = 87

\* ---------------------------------------------------------------- C17
\* the cache lookups of the first request, once it is over: one per item of
\* its log, a hit when the item was served from the cache
Hits(t) == Cardinality({i \in Items(t) : tasks[t].log[i].src = "cache"})

Misses(t) == Cardinality({i \in Items(t) : tasks[t].log[i].src # "cache"})

\* C17: after H hits and M misses (H + M > 0) getCacheStats().hitRate is
\* H / (H + M), and size is the number of stored entries.
C17_HitRateTracksLookups ==
  \A t \in DOMAIN tasks :
     (/\ requests = 1 /\ tasks[t].pc = "done" /\ Len(tasks[t].log) > 0
      /\ \A i \in Items(t) : ~Unacceptable(tasks[t].log[i].text)) =>
        /\ getCacheStats(cache).hitRate * (Hits(t) + Misses(t)) = Hits(t)
        /\ getCacheStats(cache).size = Cardinality(DOMAIN cache)

\* ---------------------------------------------------------------- C18
Expired(c, key, t) == CacheHas(c, key) /\ ~CacheFresh(c, key, t)

\* C18: when a resolve found an expired entry under its key, that entry is
\* gone from the cache once the resolve is over, whatever its outcome.
C18_ExpiredEntryDropped ==
  [][\A t \in DOMAIN tasks :
       (/\ tasks[t].pc \in {"call", "await"}
        /\ Finished(t)
        /\ NewItem(t).src # "cache"
        /\ ~Unacceptable(CurrentText(tasks[t]))
        /\ Expired(cache, cacheKeyOf(CurrentText(tasks[t])), now))
       => ~Expired(cache', cacheKeyOf(CurrentText(tasks[t])), now')]_vars

\* ---------------------------------------------------------------- C19
\* the generator calls made so far, or under way, by the request handlers
GeneratorCalls ==
  Cardinality({<<t, i>> \in (DOMAIN tasks) \X (1..MaxWordsPerRequest) :
                 i \in Items(t) /\ tasks[t].log[i].gen})
    + Cardinality({t \in DOMAIN tasks : tasks[t].pc = "await"})

\* the requests a guard has let through and recorded
Admissions ==
  Cardinality({<<ip, i>> \in Ips \X (1..(MaxAdmitted + 1)) : i \in 1..Len(limiter[ip])})

\* C19: the external generator is called in a resolve only after the budget
\* guard let that resolve proceed, so no generator call is made or under way
\* without an admission the guard has recorded.
C19_GeneratorOnlyAfterProceed ==
  \A t \in DOMAIN tasks :
     (tasks[t].pc = "await" /\ ~Unacceptable(CurrentText(tasks[t])))
       => Admissions >= GeneratorCalls

\* ---------------------------------------------------------------- C20
\* the admitted timestamps of ip that lie in the window that ends at time t
InWindow(lim, ip, t) ==
  {i \in 1..Len(lim[ip]) : t - lim[ip][i] < args.window /\ lim[ip][i] <= t}

\* a call of isAllowed for ip happens in this step
LimiterAsked(ip) ==
  args.fn = "isAllowed" /\ args'.ip = ip /\ now' = now /\ returned'.error = "none"

\* C20: a request that finds maxRequests admitted requests inside the
\* window is rejected and not recorded; a request that finds fewer, as it
\* does once the window has passed since they were admitted, is admitted and
\* recorded; and never do more than maxRequests admitted timestamps of one
\* ip lie within one window.
C20_SlidingWindow ==
  [][\A ip \in Ips :
       LimiterAsked(ip) =>
         /\ IF Cardinality(InWindow(limiter, ip, now)) >= args.maxRequests
            THEN returned'.value = FALSE /\ limiter' = limiter
            ELSE /\ returned'.value = TRUE
                 /\ Len(limiter'[ip]) > 0
                 /\ limiter'[ip][Len(limiter'[ip])] = now
                 /\ Cardinality(InWindow(limiter', ip, now))
                      = Cardinality(InWindow(limiter, ip, now)) + 1
         /\ \A i \in 1..Len(limiter'[ip]) :
              Cardinality(InWindow(limiter', ip, limiter'[ip][i])) <= args.maxRequests
         /\ Len(limiter'[ip]) <= args.maxRequests]_vars

\* a request was rejected inside the window of the admitted ones, and the
\* other ip, whose admitted request is a window old, was admitted again
C20_Witness ==
  /\ args.fn = "isAllowed"
  /\ args.maxRequests = 1
  /\ now = args.window
  /\ limiter["ip1"] = <<now \div 2>>
  /\ limiter["ip2"] = <<now>>
  /\ args.ip = "ip1"
  /\ returned.ok /\ returned.value = FALSE

\* ---------------------------------------------------------------- C21
\* the cost of the calls that were let through to the API
ProceedCost(c) == IF budgetCalls[c].decision = "Proceed" THEN budgetCalls[c].cost ELSE 0

Substituted(t) == \E i \in Items(t) : tasks[t].log[i].src \in {"mock", "none"}

\* C22: a successful response is marked degraded exactly when one of its
\* words was resolved by the synthetic fallback or by the zero vector.
C22_DegradedIsMarked ==
  \A t \in DOMAIN tasks :
     (/\ tasks[t].pc = "done"
      /\ tasks[t].response.success
      /\ \A i \in 1..Len(tasks[t].raw) : ~Unacceptable(tasks[t].raw[i]))
       => (tasks[t].response.degraded <=> Substituted(t))

\* ---------------------------------------------------------------- C23
DetectCalled == args.fn = "detectLanguage" /\ returned.error # "pending"

\* the character classes by what they are called
TurkishDiacritics == {231, 287, 305, 246, 351, 252, 199, 286, 304, 214, 350, 220}

ArabicRange == 1536..1791

ChineseRange == 19968..40959

CyrillicRange == 1024..1279

HasCharOf(class) == \E i \in 1..Len(args.text) : charCodeAt(args.text[i]) \in class

\* C23: detect gives the tag of the first of Turkish diacritics, Arabic
\* range, Chinese range, Cyrillic range that has a character in the text,
\* the default tag when none has, and never fails.
C23_DetectByPriority ==
  DetectCalled =>
    /\ returned.ok
    /\ returned.value =
         (IF HasCharOf(TurkishDiacritics) THEN "tr"
          ELSE IF HasCharOf(ArabicRange) THEN "ar"
          ELSE IF HasCharOf(ChineseRange) THEN "zh"
          ELSE IF HasCharOf(CyrillicRange) THEN "ru"
          ELSE "en")

\* ---------------------------------------------------------------- C30
AsciiLetter(c) ==
  \/ \E i \in 1..26 : UpperLetters[i] = c
  \/ \E i \in 1..26 : LowerLetters[i] = c

\* C30: a text of unaccented ASCII letters only, in either case, gets the
\* tag 'en', and a text gets the tag of its lower-case form (what the
\* similarity route reports for a word is what the embeddings route
\* reports for it).
C30_AsciiIsEnglishAnyCase ==
  DetectCalled =>
    /\ (\A i \in 1..Len(args.text) : AsciiLetter(args.text[i])) => returned.value = "en"
    /\ returned.value = detectLanguage(toLowerCase(args.text))

\* ---------------------------------------------------------------- C24
Resolving(t) ==
  /\ tasks[t].pc \in {"call", "await"}
  /\ \A i \in 1..Len(tasks[t].raw) : ~Unacceptable(tasks[t].raw[i])

\* C24: every request that is resolving a word eventually is over, with a
\* result or a failure, also when the generator never answers.
C24_EveryResolveCompletes ==
  Resolving(1) ~> (tasks[1].pc \in {"done", "idle"})

\* ---------------------------------------------------------------- C25
\* C25: an entry is absent only when its age is strictly greater than the
\* TTL: a lookup that finds an entry of its key whose age is at most
\* cacheTimeout, the age cacheTimeout itself included, is served from the
\* cache, and one that finds an older entry is not.
C25_ServedAtExactlyTTL ==
  [][\A t \in DOMAIN tasks :
       LET key == NormalForm(CurrentText(tasks[t]))
       IN  (/\ Looked(t)
            /\ ~Unacceptable(CurrentText(tasks[t]))
            /\ key \in DOMAIN cache)
           => IF now - cache[key].timestamp <= cacheTimeout
              THEN /\ Finished(t)
                   /\ NewItem(t).src = "cache"
                   /\ NewVector(t) = cache[key].embedding
              ELSE ~(Finished(t) /\ NewItem(t).src = "cache")]_vars

\* ---------------------------------------------------------------- C26
\* the vectors the generator can return
GeneratorVectors == {ExtractEmbedding(r) : r \in {x \in Responses : ~ResponseFails(x)}}

\* C26: no vector of the synthetic fallback is written to the cache: every
\* entry holds a vector the generator returned, and a resolve that ends
\* with the synthetic vector, or with no vector, leaves the cache as it was.
C26_FallbackNeverCached ==
  [][/\ \A t \in DOMAIN tasks :
          (Finished(t) /\ NewItem(t).src \in {"mock", "none"}) => cache' = cache
     /\ \A t \in DOMAIN tasks :
          (Finished(t) /\ NewItem(t).src = "generated")
            => cache'[cacheKeyOf(NewItem(t).text)].embedding = NewVector(t)
     /\ \A k \in DOMAIN cache' : cache'[k].embedding \in GeneratorVectors]_vars

\* the generator failed for a text, the fallback answered, and the next
\* resolve of the same key went to the generator again
C26_Witness ==
  \E t \in DOMAIN tasks :
    /\ Len(tasks[t].log) = 2
    /\ tasks[t].log[1].src = "mock" /\ tasks[t].log[1].gen
    /\ tasks[t].log[2].src = "generated"
    /\ NormalForm(tasks[t].log[1].text) = NormalForm(tasks[t].log[2].text)
    /\ cache[NormalForm(tasks[t].log[2].text)].embedding = tasks[t].embeddings[2]

\* ---------------------------------------------------------------- C27
\* C27: two texts with the same lowercase-trimmed form, resolved with the
\* generator unavailable, get the same vector.
C27_FallbackRespectsKey ==
  \A t \in DOMAIN tasks : \A i \in Items(t), j \in Items(t) :
     (/\ tasks[t].log[i].src = "mock"
      /\ tasks[t].log[j].src = "mock"
      /\ NormalForm(tasks[t].log[i].text) = NormalForm(tasks[t].log[j].text))
       => tasks[t].embeddings[i] = tasks[t].embeddings[j]

\* ---------------------------------------------------------------- C28
\* C28: whatever the generator answers, every vector in the cache and every
\* vector that getEmbedding or getBatchEmbeddings returned has the configured
\* dimension, so the two vectors of a similarity request have equal length.
C28_EveryVectorHasDimension ==
  /\ \A k \in DOMAIN cache : Len(cache[k].embedding) = dimension
  /\ \A t \in DOMAIN tasks : \A i \in 1..Len(tasks[t].embeddings) :
        Len(tasks[t].embeddings[i]) = dimension

\* ------------------------------------------- requests that overlap in time
\* Every await of a handler gives the event loop to the other requests, so
\* several calls of getBatchEmbeddings can be between their cache lookup and
\* their generator's answer at once.
MaxConcurrent == 2

InitConcurrent == InitWith(MaxConcurrent)

\* one more caller enters getBatchEmbeddings([text]) while others are inside
ConcurrentBatchCall(t, text) ==
  /\ tasks[t].pc = "idle"
  /\ requests < MaxConcurrent
  /\ requests' = requests + 1
  /\ tasks' = [tasks EXCEPT ![t] = StartBatch("batch", <<text>>, <<text>>, "+")]
  /\ UNCHANGED <<mockFallback, apiKey, cache, now, ticks, callVars, guardVars>>

NextConcurrent ==
  \/ \E t \in DOMAIN tasks, text \in DirectTexts : ConcurrentBatchCall(t, text)
  \/ \E t \in DOMAIN tasks : GetEmbeddingCall(t)
  \/ \E t \in DOMAIN tasks, response \in Responses : GeneratorResponds(t, response)
  \/ \E t \in DOMAIN tasks : Respond(t)

SpecConcurrent == InitConcurrent /\ [][NextConcurrent]_vars

\* ---------------------------------------------------------------- C29
\* task t has called the generator and is waiting for its answer
InFlight(t) == tasks[t].pc = "await"

\* C29: of the calls of getEmbedding that overlap and share a cache key with
\* no fresh entry, at most one is waiting for the generator at any time (the
\* others wait for that one's vector).
C29_OneGeneratorCallPerKey ==
  \A t \in DOMAIN tasks, u \in DOMAIN tasks :
     (t # u /\ InFlight(t) /\ InFlight(u))
       => cacheKeyOf(CurrentText(tasks[t])) # cacheKeyOf(CurrentText(tasks[u]))

====
